---- MODULE Spec2Model ----
(***************************************************************************)
(* A model of dynaccess: the derive macro #[derive(Dynaccess)]             *)
(* (dynaccess_macros), the traits its output implements                    *)
(* (dynaccess_traits) and the callers of the generated accessors           *)
(* (dynaccess_tests).                                                      *)
(*                                                                         *)
(* Identifiers that the macro transforms (field names, constant names,     *)
(* marker type names) are sequences of one-character strings, so that the  *)
(* regular-expression replacement of parse_field is computed character by  *)
(* character.  Identifiers the macro only copies (the record's name, the   *)
(* module name, type names) are strings.                                   *)
(***************************************************************************)
EXTENDS Naturals, Sequences, FiniteSets, TLC

VARIABLES
    input,      \* the MacroInput handed to the derive (syn's AST of the item)
    phase,      \* "parsed" | "expanded" | "failed" | "live"
    output,     \* the token stream the derive returns: a sequence of modules
    diag,       \* the panic message of a failed expansion, "" otherwise
    s,          \* the record instance the callers work on: field ident -> value
    borrow,     \* the field ident mutably borrowed through get_mut, or NoBorrow
    last,       \* the caller's last completed call
    prev,       \* the caller's call before that
    ret,        \* what the last get returned
    written     \* per field position: the value last passed in for that field

vars == <<input, phase, output, diag, s, borrow, last, prev, ret, written>>

(***************************************************************************)
(* Bounds of the model.                                                    *)
(***************************************************************************)
MaxNameLen == 3
MaxDirectives == 3
MaxFields == 2

(***************************************************************************)
(* Generic sequence helpers.                                               *)
(***************************************************************************)
SeqsUpTo(S, n) == UNION {[1..k -> S] : k \in 0..n}

RECURSIVE Flatten(_)
Flatten(ss) == IF ss = <<>> THEN <<>> ELSE Head(ss) \o Flatten(Tail(ss))

(***************************************************************************)
(* syn's AST: Lit, MetaItem, NestedMetaItem, Attribute, Field, Body,       *)
(* MacroInput.                                                             *)
(***************************************************************************)
LitStr(v) == [lit |-> "Str", value |-> v]
LitInt(v) == [lit |-> "Int", value |-> v]

Word(n) == [meta |-> "Word", name |-> n]
List(n, items) == [meta |-> "List", name |-> n, items |-> items]
NameValue(n, l) == [meta |-> "NameValue", name |-> n, value |-> l]

NestedMeta(m) == [nested |-> "MetaItem", item |-> m]
NestedLit(l) == [nested |-> "Literal", literal |-> l]

Attribute(m) == [style |-> "Outer", is_sugared_doc |-> FALSE, value |-> m]

NoIdent == <<>>
Field(ident, ty, attrs) == [ident |-> ident, ty |-> ty, attrs |-> attrs]

BodyStruct(fields) == [body |-> "Struct", data |-> "Struct", fields |-> fields]
BodyTuple(fields) == [body |-> "Struct", data |-> "Tuple", fields |-> fields]
BodyUnit == [body |-> "Struct", data |-> "Unit", fields |-> <<>>]
BodyEnum == [body |-> "Enum", data |-> "Variants", fields |-> <<>>]

MacroInput(ident, attrs, body) == [ident |-> ident, attrs |-> attrs, body |-> body]

(***************************************************************************)
(* str::to_uppercase on the characters an identifier is made of.           *)
(***************************************************************************)
LowerCase == <<"a","b","c","d","e","f","g","h","i","j","k","l","m",
               "n","o","p","q","r","s","t","u","v","w","x","y","z">>
UpperCase == <<"A","B","C","D","E","F","G","H","I","J","K","L","M",
               "N","O","P","Q","R","S","T","U","V","W","X","Y","Z">>

to_uppercase(c) ==
    IF \E i \in 1..Len(LowerCase) : LowerCase[i] = c
    THEN UpperCase[CHOOSE i \in 1..Len(LowerCase) : LowerCase[i] = c]
    ELSE c

(***************************************************************************)
(* REGEX_SNAKE_CASE = "(?:^|_)(.)" and Regex::replace_all with the closure *)
(* that upper-cases capture 1.  The matches are the leftmost, non-         *)
(* overlapping ones; at one position the alternative ^ is tried before _.  *)
(* MatchLen is the length of the match that starts at position i, 0 when   *)
(* none does.                                                              *)
(***************************************************************************)
Dot(c) == c # "\n"

StartOnlyMatchLen(name, i) ==
    IF i = 1 /\ Len(name) >= 1 /\ Dot(name[1]) THEN 1 ELSE 0

UnderscoreFirstMatchLen(name, i) ==
    IF name[i] = "_" /\ i + 1 <= Len(name) /\ Dot(name[i + 1]) THEN 2
    ELSE IF i = 1 /\ Len(name) >= 1 /\ Dot(name[1]) THEN 1
    ELSE 0

MatchLen(name, i) ==
    IF i = 1 /\ Len(name) >= 1 /\ Dot(name[1]) THEN 1
    ELSE IF name[i] = "_" /\ i + 1 <= Len(name) /\ Dot(name[i + 1]) THEN 2
    ELSE 0

RECURSIVE replace_all(_, _)
replace_all(name, i) ==
    IF i > Len(name) THEN <<>>
    ELSE LET n == MatchLen(name, i) IN
         IF n = 0 THEN <<name[i]>> \o replace_all(name, i + 1)
         ELSE <<to_uppercase(name[i + n - 1])>> \o replace_all(name, i + n)

camel_case(field_name) == replace_all(field_name, 1)

(***************************************************************************)
(* filter_dynaccess_attrs: the arguments of every #[dynaccess(...)]        *)
(* attribute, flattened, in order.                                         *)
(***************************************************************************)
AnyList(attr) == attr.value.meta = "List"

IsDynaccessList(attr) ==
    attr.value.meta = "List" /\ attr.value.name = "dynaccess"

DynaccessArgs(attr) == attr.value.items

filter_dynaccess_attrs(attrs) ==
    LET kept == SelectSeq(attrs, IsDynaccessList)
    IN  Flatten([i \in 1..Len(kept) |-> DynaccessArgs(kept[i])])

(***************************************************************************)
(* The inner loop shared by parse_field and parse_macro_config: the        *)
(* MetaItem arguments of a field_attrs(...) list, each wrapped in an outer *)
(* Attribute; literal arguments are dropped.                               *)
(***************************************************************************)
IsNestedMeta(item) == item.nested = "MetaItem"
NestedItem(item) == item.item
AttributeOf(item) == Attribute(item.item)

ToAttributes(items) ==
    LET metas == SelectSeq(items, IsNestedMeta)
    IN  [i \in 1..Len(metas) |-> AttributeOf(metas[i])]

IsFieldAttrsList(m) == m.meta = "List" /\ m.name = "field_attrs"

IsModuleDirective(item) ==
    /\ item.nested = "MetaItem"
    /\ item.item.meta = "NameValue"
    /\ item.item.name = "module"
    /\ item.item.value.lit = "Str"

IsFieldAttrsDirective(item) ==
    item.nested = "MetaItem" /\ IsFieldAttrsList(item.item)

(***************************************************************************)
(* parse_field.                                                            *)
(***************************************************************************)
RECURSIVE FieldLevelAttrs(_)
FieldLevelAttrs(metas) ==
    IF metas = <<>> THEN <<>>
    ELSE (IF IsFieldAttrsList(Head(metas))
          THEN ToAttributes(Head(metas).items)
          ELSE <<>>) \o FieldLevelAttrs(Tail(metas))

parse_field(field) ==
    LET camel == camel_case(field.ident)
        nested == SelectSeq(filter_dynaccess_attrs(field.attrs), IsNestedMeta)
        metas == [i \in 1..Len(nested) |-> NestedItem(nested[i])]
    IN  [attrs        |-> FieldLevelAttrs(metas),
         const_ident  |-> camel,
         ident        |-> field.ident,
         struct_ident |-> <<"_">> \o camel,
         ty           |-> field.ty]

(***************************************************************************)
(* parse_macro_config.                                                     *)
(***************************************************************************)
DefaultModule == "field"

FirstModuleWins(module_name, item) ==
    IF module_name = DefaultModule THEN item.item.value.value ELSE module_name

ModuleStep(module_name, item) == item.item.value.value

RECURSIVE ModuleName(_, _)
ModuleName(args, module_name) ==
    IF args = <<>> THEN module_name
    ELSE ModuleName(Tail(args),
                    IF IsModuleDirective(Head(args))
                    THEN ModuleStep(module_name, Head(args))
                    ELSE module_name)

RECURSIVE GlobalAttrs(_)
GlobalAttrs(args) ==
    IF args = <<>> THEN <<>>
    ELSE (IF ~IsModuleDirective(Head(args)) /\ IsFieldAttrsDirective(Head(args))
          THEN ToAttributes(Head(args).item.items)
          ELSE <<>>) \o GlobalAttrs(Tail(args))

PanicNotStruct == "#[derive(Dynaccess)] is only defined for structs"

AnyStructBody(body) == body.body = "Struct"

IsNamedStruct(body) == body.body = "Struct" /\ body.data = "Struct"

parse_macro_config(inp) ==
    LET args == filter_dynaccess_attrs(inp.attrs) IN
    IF IsNamedStruct(inp.body)
    THEN [panic        |-> "",
          module_ident |-> ModuleName(args, DefaultModule),
          struct_ident |-> inp.ident,
          global_attrs |-> GlobalAttrs(args),
          fields       |-> [i \in 1..Len(inp.body.fields) |->
                              parse_field(inp.body.fields[i])]]
    ELSE [panic |-> PanicNotStruct]

(***************************************************************************)
(* create_field_items: the three declarations generated for one field.     *)
(***************************************************************************)
SwappedAttrs(global_attrs, attrs) == attrs \o global_attrs

MarkerAttrs(global_attrs, attrs) == global_attrs \o attrs

FirstFieldIdent(config, field) == config.fields[1].ident

BoundField(config, field) == field.ident

create_field_items(config, field) ==
    << [decl  |-> "struct",
        name  |-> field.struct_ident,
        attrs |-> MarkerAttrs(config.global_attrs, field.attrs)],
       [decl  |-> "const",
        name  |-> field.const_ident,
        ty    |-> field.struct_ident],
       [decl   |-> "impl",
        marker |-> field.struct_ident,
        record |-> config.struct_ident,
        type   |-> field.ty,
        field  |-> BoundField(config, field)] >>

(***************************************************************************)
(* dynaccess: the derive itself.  Its result is the emitted token stream   *)
(* (one module) or the panic.                                              *)
(***************************************************************************)
dynaccess(inp) ==
    LET config == parse_macro_config(inp) IN
    IF config.panic # ""
    THEN [panic |-> config.panic, tokens |-> <<>>]
    ELSE [panic  |-> "",
          tokens |-> << [ident     |-> config.module_ident,
                         uses      |-> config.struct_ident,
                         accessors |-> config.struct_ident,
                         items     |-> Flatten([i \in 1..Len(config.fields) |->
                                          create_field_items(config, config.fields[i])])] >>]

(***************************************************************************)
(* The compiler runs the derive on the parsed declaration, once.           *)
(***************************************************************************)
NoCall == [op |-> "none", k |-> 0, value |-> ""]
NoBorrow == <<>>

Expand ==
    /\ phase = "parsed"
    /\ LET r == dynaccess(input) IN
         /\ output' = r.tokens
         /\ diag' = r.panic
         /\ phase' = IF r.panic = "" THEN "expanded" ELSE "failed"
    /\ UNCHANGED <<input, s, borrow, last, prev, ret, written>>

(***************************************************************************)
(* The generated module as the compiler sees it.  A unit struct declares   *)
(* its name as a type and as a value, a const declares a value; two        *)
(* declarations of one name in one namespace are rejected, so a module     *)
(* with such a pair has no callers.  (The record's own name, imported by   *)
(* use super::S, is a type name too; the records here have names no marker *)
(* type is given.)                                                         *)
(***************************************************************************)
TypeNames(m) == [i \in {j \in 1..Len(m.items) : m.items[j].decl = "struct"} |->
                    m.items[i].name]
ValueNames(m) == [i \in {j \in 1..Len(m.items) : m.items[j].decl \in {"struct", "const"}} |->
                     m.items[i].name]

Injective(f) == \A i, j \in DOMAIN f : f[i] = f[j] => i = j

Compiles(m) == Injective(TypeNames(m)) /\ Injective(ValueNames(m))

(***************************************************************************)
(* The generated impl Field<S> for a marker type F, found by F's name, and *)
(* the generated impl FieldAccessors for S that dispatches to it.          *)
(***************************************************************************)
ImplFor(m, F) ==
    m.items[CHOOSE i \in 1..Len(m.items) :
                m.items[i].decl = "impl" /\ m.items[i].marker = F]

TypeOfValue(m, path) ==
    LET d == m.items[CHOOSE i \in 1..Len(m.items) :
                 m.items[i].decl \in {"struct", "const"} /\ m.items[i].name = path]
    IN  IF d.decl = "const" THEN d.ty ELSE d.name

Field_get(m, F, st) == st[ImplFor(m, F).field]

FirstField_get_mut(m, F, st) == m.items[3].field
Field_get_mut(m, F, st) == ImplFor(m, F).field

FirstField_set(m, F, st, v) == [st EXCEPT ![m.items[3].field] = v]
Field_set(m, F, st, v) == [st EXCEPT ![ImplFor(m, F).field] = v]

get(m, st, F) == Field_get(m, F, st)
get_mut(m, st, F) == Field_get_mut(m, F, st)
set(m, st, F, v) == Field_set(m, F, st, v)

(***************************************************************************)
(* The callers: they build a record, name the constant generated for its   *)
(* k-th field (field::Field, field::Name, ...) and call set, get and       *)
(* get_mut with it.                                                        *)
(***************************************************************************)
TypeVals(ty) ==
    CASE ty = "bool"   -> {"false", "true"}
      [] ty = "String" -> {"Hello", "Hello World!"}
      [] ty = "usize"  -> {"0", "23956532"}

Fields == input.body.fields
Module == output[1]
MarkerConst(k) == Module.items[3 * (k - 1) + 2].name
Marker(k) == TypeOfValue(Module, MarkerConst(k))

New ==
    /\ phase = "expanded"
    /\ Compiles(Module)
    /\ \E st \in [{Fields[k].ident : k \in 1..Len(Fields)} -> UNION {TypeVals(Fields[k].ty) : k \in 1..Len(Fields)}] :
         /\ \A k \in 1..Len(Fields) : st[Fields[k].ident] \in TypeVals(Fields[k].ty)
         /\ s' = st
         /\ written' = [k \in 1..Len(Fields) |-> st[Fields[k].ident]]
    /\ phase' = "live"
    /\ last' = [op |-> "new", k |-> 0, value |-> ""]
    /\ prev' = last
    /\ UNCHANGED <<input, output, diag, borrow, ret>>

Set ==
    /\ phase = "live"
    /\ borrow = NoBorrow
    /\ \E k \in 1..Len(Fields) : \E v \in TypeVals(Fields[k].ty) :
         /\ s' = set(Module, s, Marker(k), v)
         /\ written' = [written EXCEPT ![k] = v]
         /\ last' = [op |-> "set", k |-> k, value |-> v]
    /\ prev' = last
    /\ UNCHANGED <<input, phase, output, diag, borrow, ret>>

Get ==
    /\ phase = "live"
    /\ borrow = NoBorrow
    /\ \E k \in 1..Len(Fields) :
         /\ ret' = get(Module, s, Marker(k))
         /\ last' = [op |-> "get", k |-> k, value |-> ret']
    /\ prev' = last
    /\ UNCHANGED <<input, phase, output, diag, s, borrow, written>>

GetMut ==
    /\ phase = "live"
    /\ borrow = NoBorrow
    /\ \E k \in 1..Len(Fields) :
         /\ borrow' = get_mut(Module, s, Marker(k))
         /\ last' = [op |-> "get_mut", k |-> k, value |-> ""]
    /\ prev' = last
    /\ UNCHANGED <<input, phase, output, diag, s, ret, written>>

WriteThrough ==
    /\ phase = "live"
    /\ borrow # NoBorrow
    /\ last.op \in {"get_mut", "write"}
    /\ \E w \in TypeVals(Fields[last.k].ty) :
         /\ s' = [s EXCEPT ![borrow] = w]
         /\ written' = [written EXCEPT ![last.k] = w]
         /\ last' = [op |-> "write", k |-> last.k, value |-> w]
    /\ prev' = last
    /\ UNCHANGED <<input, phase, output, diag, borrow, ret>>

Release ==
    /\ phase = "live"
    /\ borrow # NoBorrow
    /\ borrow' = NoBorrow
    /\ UNCHANGED <<input, phase, output, diag, s, last, prev, ret, written>>

(***************************************************************************)
(* Inputs.  Field names to transform: every identifier of at most          *)
(* MaxNameLen characters over NameAlphabet, and the names of the tests.    *)
(***************************************************************************)
NameAlphabet == {"a", "b", "_", "1"}
Digits == {"0", "1", "2", "3", "4", "5", "6", "7", "8", "9"}

n_field == <<"f","i","e","l","d">>
n_name == <<"n","a","m","e">>
n_id == <<"i","d">>
n_is_unique == <<"i","s","_","u","n","i","q","u","e">>
n_age == <<"a","g","e">>

TestNames == {n_field, n_name, n_id, n_is_unique, n_age}

IsIdentifier(n) == n # <<>> /\ n # <<"_">> /\ n[1] \notin Digits

FieldNames ==
    {n \in SeqsUpTo(NameAlphabet, MaxNameLen) : IsIdentifier(n)} \cup TestNames

Idle ==
    /\ phase = "parsed"
    /\ output = <<>>
    /\ diag = ""
    /\ s = <<>>
    /\ borrow = NoBorrow
    /\ last = NoCall
    /\ prev = NoCall
    /\ ret = ""
    /\ written = <<>>

(***************************************************************************)
(* Inputs.  Annotations: the directives a #[dynaccess(...)] annotation may *)
(* hold, at most MaxDirectives of them on one declaration, written as one  *)
(* annotation or split over two, with or without an annotation that is not *)
(* a #[dynaccess(...)] list between them.                                  *)
(***************************************************************************)
DeriveClone == List("derive", <<NestedMeta(Word("Clone"))>>)
DeriveDebug == List("derive", <<NestedMeta(Word("Debug"))>>)
AllowDeadCode == List("allow", <<NestedMeta(Word("dead_code"))>>)

ModDog == NestedMeta(NameValue("module", LitStr("dog_field")))
ModSheep == NestedMeta(NameValue("module", LitStr("sheep_field")))
ModInt == NestedMeta(NameValue("module", LitInt("3")))
Rename == NestedMeta(Word("rename"))
BareLit == NestedLit(LitStr("module"))
AttrsClone == NestedMeta(List("field_attrs", <<NestedMeta(DeriveClone)>>))
AttrsDebug ==
    NestedMeta(List("field_attrs",
        <<NestedMeta(DeriveDebug), NestedLit(LitStr("doc")), NestedMeta(AllowDeadCode)>>))

Directives == {ModDog, ModSheep, ModInt, Rename, BareLit, AttrsClone, AttrsDebug}

OtherAttributes ==
    { Attribute(List("serde", <<ModSheep, AttrsClone>>)),
      Attribute(NameValue("dynaccess", LitStr("dog_field"))) }

Annotation(ds) == IF ds = <<>> THEN <<>> ELSE <<Attribute(List("dynaccess", ds))>>

AttrLists ==
    { Annotation(SubSeq(ds, 1, c)) \o o \o Annotation(SubSeq(ds, c + 1, Len(ds))) :
        <<ds, c, o>> \in
            { x \in SeqsUpTo(Directives, MaxDirectives)
                    \X (0..MaxDirectives)
                    \X ({<<>>} \cup {<<a>> : a \in OtherAttributes}) :
                x[2] <= Len(x[1]) } }

Snowflake(id_attrs, is_unique_attrs) ==
    BodyStruct(<< Field(n_id, "usize", id_attrs),
                  Field(n_is_unique, "bool", is_unique_attrs) >>)

Bodies ==
    { Snowflake(Annotation(<<AttrsClone>>), Annotation(<<AttrsDebug>>)),
      BodyTuple(<<Field(NoIdent, "usize", Annotation(<<AttrsClone>>))>>),
      BodyUnit,
      BodyEnum }

InitAttrs ==
    /\ \E a \in AttrLists :
         \/ \E b \in Bodies : input = MacroInput("Snowflake", a, b)
         \/ \E r \in {<<>>, Annotation(<<AttrsDebug, ModDog>>)} :
               input = MacroInput("Snowflake", r,
                                  Snowflake(a, Annotation(<<AttrsDebug>>)))
    /\ Idle

NextAttrs == Expand

SpecAttrs == InitAttrs /\ [][NextAttrs]_vars

(***************************************************************************)
(* Inputs.  Records whose accessors are called: the records of the tests,  *)
(* a record of three fields, two of them of one type, a record whose two   *)
(* fields are given one constant name (its module is rejected, so it gets  *)
(* no callers), and every record of at most MaxFields fields, in any       *)
(* order, out of FieldPool.                                                *)
(***************************************************************************)
FieldPool ==
    { Field(n_field, "bool", <<>>),
      Field(n_name, "String", <<>>),
      Field(n_id, "usize", <<>>),
      Field(n_is_unique, "bool", <<>>) }

Distinct(fs) == \A i, j \in 1..Len(fs) : fs[i] = fs[j] => i = j

TestRecords ==
    { MacroInput("Dog", Annotation(<<ModDog>>),
                 BodyStruct(<<Field(n_name, "String", <<>>)>>)),
      MacroInput("Sheep", Annotation(<<AttrsClone, ModSheep>>),
                 BodyStruct(<<Field(n_name, "String", <<>>)>>)),
      MacroInput("Snowflake", Annotation(<<NestedMeta(NameValue("module", LitStr("snowflake_field")))>>),
                 Snowflake(Annotation(<<AttrsClone>>),
                           Annotation(<<NestedMeta(List("field_attrs", <<NestedMeta(DeriveDebug)>>))>>))) }

Triple ==
    MacroInput("Triple", <<>>,
               BodyStruct(<< Field(n_field, "bool", <<>>),
                             Field(n_name, "String", <<>>),
                             Field(n_is_unique, "bool", <<>>) >>))

Colliding ==
    MacroInput("Pair", <<>>,
               BodyStruct(<< Field(<<"a", "1">>, "bool", <<>>),
                             Field(<<"a", "_", "1">>, "bool", <<>>) >>))

Init ==
    /\ \/ input \in TestRecords \cup {Triple, Colliding}
       \/ \E fs \in SeqsUpTo(FieldPool, MaxFields) :
             /\ fs # <<>>
             /\ Distinct(fs)
             /\ input = MacroInput("Struct", <<>>, BodyStruct(fs))
    /\ Idle

Next == Expand \/ New \/ Set \/ Get \/ GetMut \/ WriteThrough \/ Release

Spec == Init /\ [][Next]_vars

InitNames ==
    /\ \E n1 \in FieldNames : \E n2 \in FieldNames \cup {NoIdent} :
         /\ n1 # n2
         /\ input = MacroInput("Struct", <<>>,
               BodyStruct(IF n2 = NoIdent
                          THEN <<Field(n1, "bool", <<>>)>>
                          ELSE <<Field(n1, "bool", <<>>), Field(n2, "bool", <<>>)>>))
    /\ Idle

NextNames == Expand

SpecNames == InitNames /\ [][NextNames]_vars

(***************************************************************************)
(* The declarations generated for the k-th field of the input.             *)
(***************************************************************************)
Expanded == phase \in {"expanded", "live"}
MarkerDecl(k) == Module.items[3 * (k - 1) + 1]
ConstDecl(k) == Module.items[3 * (k - 1) + 2]
ImplDecl(k) == Module.items[3 * (k - 1) + 3]

(***************************************************************************)
(* The casing rule as documented, computed from the segments of the name   *)
(* and not by scanning for matches.                                        *)
(***************************************************************************)
Capital(c) ==
    CASE c = "a" -> "A" [] c = "b" -> "B" [] c = "c" -> "C" [] c = "d" -> "D"
      [] c = "e" -> "E" [] c = "f" -> "F" [] c = "g" -> "G" [] c = "h" -> "H"
      [] c = "i" -> "I" [] c = "j" -> "J" [] c = "k" -> "K" [] c = "l" -> "L"
      [] c = "m" -> "M" [] c = "n" -> "N" [] c = "o" -> "O" [] c = "p" -> "P"
      [] c = "q" -> "Q" [] c = "r" -> "R" [] c = "s" -> "S" [] c = "t" -> "T"
      [] c = "u" -> "U" [] c = "v" -> "V" [] c = "w" -> "W" [] c = "x" -> "X"
      [] c = "y" -> "Y" [] c = "z" -> "Z" [] OTHER -> c

RECURSIVE Segments(_)
Segments(n) ==
    IF \E i \in 1..Len(n) : n[i] = "_"
    THEN LET i == CHOOSE j \in 1..Len(n) :
                      n[j] = "_" /\ \A h \in 1..(j - 1) : n[h] # "_"
         IN  <<SubSeq(n, 1, i - 1)>> \o Segments(SubSeq(n, i + 1, Len(n)))
    ELSE <<n>>

Capitalized(seg) == <<Capital(seg[1])>> \o Tail(seg)

WellFormedName(n) ==
    /\ n # <<>>
    /\ \A i \in 1..Len(Segments(n)) : Segments(n)[i] # <<>>
    /\ \A i \in 1..Len(n) : n[i] = "_" \/ Capital(n[i]) # n[i] \/ n[i] \in Digits

PascalCase(n) ==
    Flatten([i \in 1..Len(Segments(n)) |-> Capitalized(Segments(n)[i])])

\* C3: for a field whose name is non-empty lower-case segments joined by single
\* underscores, the constant is named by the segments concatenated, each with
\* its first character upper-cased, and the marker type by "_" followed by
\* the constant's name, whatever the record the field stands in.
C3_NameTransform ==
    Expanded =>
        \A k \in 1..Len(Fields) :
            WellFormedName(Fields[k].ident) =>
                /\ ConstDecl(k).name = PascalCase(Fields[k].ident)
                /\ MarkerDecl(k).name = <<"_">> \o PascalCase(Fields[k].ident)

C3_Witness ==
    /\ Expanded
    /\ Len(Fields) = 2
    /\ Fields[2].ident = n_is_unique
    /\ ConstDecl(2).name = <<"I","s","U","n","i","q","u","e">>
    /\ MarkerDecl(2).name = <<"_","I","s","U","n","i","q","u","e">>

(***************************************************************************)
(* The transform with every underscore a transform point.                  *)
(***************************************************************************)
LowerOrUnderscore(n) ==
    n # <<>> /\ \A i \in 1..Len(n) : n[i] = "_" \/ Capital(n[i]) # n[i]

EveryUnderscore(n) ==
    LET kept == {i \in 1..Len(n) : n[i] # "_"}
        out(i) == IF i = 1 \/ n[i - 1] = "_" THEN Capital(n[i]) ELSE n[i]
        nth[j \in 1..Cardinality(kept)] ==
            CHOOSE i \in kept : Cardinality({h \in kept : h < i}) = j - 1
    IN  [j \in 1..Cardinality(kept) |-> out(nth[j])]

UnderscoresBefore(n, i) ==
    Cardinality({j \in 2..(i - 1) : \A h \in j..(i - 1) : n[h] = "_"})

TransformPoint(n, i) ==
    /\ 1 < i /\ i < Len(n)
    /\ n[i] = "_"
    /\ UnderscoresBefore(n, i) % 2 = 0

AtTransformPoints(n) ==
    LET kept == {i \in 1..Len(n) : ~TransformPoint(n, i)}
        out(i) == IF i = 1 \/ (i > 1 /\ TransformPoint(n, i - 1))
                  THEN Capital(n[i]) ELSE n[i]
        nth[j \in 1..Cardinality(kept)] ==
            CHOOSE i \in kept : Cardinality({h \in kept : h < i}) = j - 1
    IN  [j \in 1..Cardinality(kept) |-> out(nth[j])]

C8_NoDuplicateDeclarations ==
    Expanded =>
        /\ Len(Module.items) = 3 * Len(Fields)
        /\ \A k \in 1..Len(Fields) :
              /\ MarkerDecl(k).decl = "struct"
              /\ ConstDecl(k).decl = "const"
              /\ ConstDecl(k).ty = MarkerDecl(k).name
              /\ ImplDecl(k).decl = "impl"
              /\ ImplDecl(k).marker = MarkerDecl(k).name
              /\ ImplDecl(k).field = Fields[k].ident
        /\ \A j, k \in 1..Len(Fields) :
              /\ j # k => ConstDecl(j).name # ConstDecl(k).name
              /\ j # k => MarkerDecl(j).name # MarkerDecl(k).name
              /\ MarkerDecl(j).name # ConstDecl(k).name

(***************************************************************************)
(* The directives of an annotation list, by position: <<i, j>> is the j-th *)
(* argument of the i-th annotation, when that annotation is a              *)
(* #[dynaccess(...)] list.                                                 *)
(***************************************************************************)
DirectivePositions(attrs) ==
    UNION { {<<i, j>> : j \in 1..Len(attrs[i].value.items)} :
              i \in {h \in 1..Len(attrs) :
                        attrs[h].value.meta = "List" /\ attrs[h].value.name = "dynaccess"} }

DirectiveAt(attrs, p) == attrs[p[1]].value.items[p[2]]

IsModuleString(d) ==
    /\ d.nested = "MetaItem"
    /\ d.item.meta = "NameValue"
    /\ d.item.name = "module"
    /\ d.item.value.lit = "Str"

IsFieldAttrs(d) ==
    d.nested = "MetaItem" /\ d.item.meta = "List" /\ d.item.name = "field_attrs"

Before(p, q) ==
    \/ p[1] < q[1]
    \/ p[1] = q[1] /\ p[2] < q[2]
    \/ p[1] = q[1] /\ p[2] = q[2] /\ Len(p) = 3 /\ p[3] < q[3]

ModulePositions(attrs) ==
    {p \in DirectivePositions(attrs) : IsModuleString(DirectiveAt(attrs, p))}

ExpectedModule ==
    IF ModulePositions(input.attrs) = {} THEN "field"
    ELSE LET p == CHOOSE q \in ModulePositions(input.attrs) :
                      \A r \in ModulePositions(input.attrs) : r = q \/ Before(r, q)
         IN  DirectiveAt(input.attrs, p).item.value.value

NamedFields == input.body.body = "Struct" /\ input.body.data = "Struct"

\* C4: expansion of a record emits exactly one module, named "field" when no
\* #[dynaccess(...)] annotation of the record holds a module = "<string>"
\* directive and otherwise by the last such directive in annotation order;
\* with a custom name no module named "field" is emitted.
C4_ModuleNaming ==
    (phase # "parsed" /\ NamedFields) =>
        /\ Len(output) = 1
        /\ output[1].ident = ExpectedModule
        /\ ExpectedModule # "field" =>
              \A i \in 1..Len(output) : output[i].ident # "field"

C4_Witness ==
    /\ Expanded
    /\ Len(input.attrs) = 2
    /\ ModulePositions(input.attrs) = {<<1, 1>>, <<2, 2>>}
    /\ DirectiveAt(input.attrs, <<1, 1>>) = ModSheep
    /\ DirectiveAt(input.attrs, <<2, 2>>) = ModDog
    /\ Module.ident = "dog_field"

(***************************************************************************)
(* The items of the field_attrs(...) directives of an annotation list, in  *)
(* directive order: <<i, j, h>> is the h-th argument of the field_attrs    *)
(* list at <<i, j>>, when that argument is an annotation and not a         *)
(* literal.                                                                *)
(***************************************************************************)
ItemPositions(attrs) ==
    UNION { {<<p[1], p[2], h>> : h \in {g \in 1..Len(DirectiveAt(attrs, p).item.items) :
                 DirectiveAt(attrs, p).item.items[g].nested = "MetaItem"}} :
              p \in {q \in DirectivePositions(attrs) : IsFieldAttrs(DirectiveAt(attrs, q))} }

FieldAttrsItems(attrs) ==
    LET ps == ItemPositions(attrs)
        nth[n \in 1..Cardinality(ps)] ==
            CHOOSE p \in ps : Cardinality({q \in ps : Before(q, p)}) = n - 1
    IN  [n \in 1..Cardinality(ps) |->
            DirectiveAt(attrs, nth[n]).item.items[nth[n][3]].item]

AnnotationsOf(decl) == [i \in 1..Len(decl.attrs) |-> decl.attrs[i].value]

\* C5: the annotations of the marker type of a field are the items of the
\* record's field_attrs directives, in directive order, followed by the items
\* of the field's own field_attrs directives, in directive order.
C5_AnnotationPropagation ==
    Expanded =>
        \A k \in 1..Len(Fields) :
            AnnotationsOf(MarkerDecl(k)) =
                FieldAttrsItems(input.attrs) \o FieldAttrsItems(Fields[k].attrs)

C5_Witness ==
    /\ Expanded
    /\ Len(Fields) = 2
    /\ AnnotationsOf(MarkerDecl(1)) = <<DeriveDebug, AllowDeadCode, DeriveClone>>
    /\ AnnotationsOf(MarkerDecl(2)) = <<DeriveDebug, AllowDeadCode, DeriveDebug, AllowDeadCode>>
    /\ FieldAttrsItems(input.attrs) = <<DeriveDebug, AllowDeadCode>>
    /\ FieldAttrsItems(Fields[1].attrs) = <<DeriveClone>>

\* C6: a declaration that is not a structure of named fields ends expansion
\* in the failure "#[derive(Dynaccess)] is only defined for structs" with
\* nothing emitted, whatever its directives; a structure of named fields
\* never ends in that failure.
C6_OnlyNamedStructs ==
    phase # "parsed" =>
        IF NamedFields
        THEN phase # "failed" /\ diag = ""
        ELSE /\ phase = "failed"
             /\ diag = "#[derive(Dynaccess)] is only defined for structs"
             /\ output = <<>>

C6_Witness ==
    /\ phase = "failed"
    /\ input.body.body = "Struct"
    /\ input.body.data = "Tuple"
    /\ ModulePositions(input.attrs) # {}
    /\ ItemPositions(input.attrs) # {}
    /\ output = <<>>

(***************************************************************************)
(* The input without what is not recognized: on the record only the        *)
(* #[dynaccess(...)] annotations, holding only their module = "<string>"   *)
(* and field_attrs(...) directives; on a field only the #[dynaccess(...)]  *)
(* annotations, holding only their field_attrs(...) directives.            *)
(***************************************************************************)
RecordDirective(d) == IsModuleString(d) \/ IsFieldAttrs(d)
FieldDirective(d) == IsFieldAttrs(d)

RECURSIVE Recognized(_, _)
Recognized(attrs, recordLevel) ==
    IF attrs = <<>> THEN <<>>
    ELSE LET a == Head(attrs)
             ds == IF recordLevel
                   THEN SelectSeq(a.value.items, RecordDirective)
                   ELSE SelectSeq(a.value.items, FieldDirective)
         IN  (IF a.value.meta = "List" /\ a.value.name = "dynaccess" /\ ds # <<>>
              THEN <<[a EXCEPT !.value.items = ds]>>
              ELSE <<>>) \o Recognized(Tail(attrs), recordLevel)

Stripped ==
    [input EXCEPT
        !.attrs = Recognized(input.attrs, TRUE),
        !.body.fields = [k \in 1..Len(input.body.fields) |->
            [input.body.fields[k] EXCEPT
                !.attrs = Recognized(input.body.fields[k].attrs, FALSE)]]]

\* C7: directives other than a record-level module = "<string>" and a
\* field_attrs(...) list, and annotations that are not #[dynaccess(...)],
\* cause no failure on a named-field record and leave the generated module
\* as it is generated without them.
C7_UnrecognizedIgnored ==
    (phase # "parsed" /\ NamedFields) =>
        /\ phase = "expanded"
        /\ output = dynaccess(Stripped).tokens

C7_Witness ==
    /\ Expanded
    /\ Len(input.attrs) = 3
    /\ Len(Stripped.attrs) = 1
    /\ \E p \in DirectivePositions(input.attrs) : DirectiveAt(input.attrs, p) = ModInt
    /\ \E p \in DirectivePositions(input.attrs) : DirectiveAt(input.attrs, p) = BareLit
    /\ Module.ident = "sheep_field"
    /\ output = dynaccess(Stripped).tokens

(***************************************************************************)
(* The member f of the record, read directly (s.f), for the k-th field.    *)
(***************************************************************************)
Member(st, k) == st[Fields[k].ident]

\* C1: on a record in any state reached by set, get and get_mut calls,
\* set(marker_f, v) followed by get(marker_f) returns v, wherever f stands in
\* the declaration and however many other fields there are.
C1_ReadAfterWrite ==
    (phase = "live" /\ last.op = "get" /\ prev.op = "set" /\ prev.k = last.k) =>
        ret = prev.value

C1_Witness ==
    /\ phase = "live"
    /\ Len(Fields) = 3
    /\ Fields[2].ident = n_name
    /\ last.op = "get" /\ last.k = 2
    /\ prev.op = "set" /\ prev.k = 2 /\ prev.value = "Hello World!"
    /\ ret = "Hello World!"
    /\ Member(s, 1) # ret /\ Member(s, 3) # ret

\* C2: get_mut(marker_f) borrows the member f itself: once the caller has
\* changed the borrowed value to w, the member f is w and get(marker_f)
\* returns w.
C2_MutationInPlace ==
    /\ (phase = "live" /\ last.op = "write") =>
          /\ Member(s, last.k) = last.value
          /\ get(Module, s, Marker(last.k)) = last.value
    /\ (phase = "live" /\ last.op = "get" /\ prev.op = "write" /\ prev.k = last.k) =>
          ret = prev.value

C2_Witness ==
    /\ phase = "live"
    /\ Fields = <<Field(n_field, "bool", <<>>), Field(n_name, "String", <<>>)>>
    /\ prev.op = "write" /\ prev.k = 2 /\ prev.value = "Hello World!"
    /\ last.op = "get" /\ last.k = 2
    /\ ret = "Hello World!"
    /\ Member(s, 2) = "Hello World!"
    /\ Member(s, 1) = "true"

(***************************************************************************)
(* What one call may change: a field differs after a step only if the step *)
(* is the set, or the write through get_mut, of that field's marker; get   *)
(* changes nothing and returns its own field's value.                      *)
(***************************************************************************)
C9_Step ==
    (phase = "live" /\ phase' = "live") =>
        /\ \A k \in 1..Len(Fields) :
              Member(s', k) # Member(s, k) =>
                  /\ last'.op \in {"set", "write"}
                  /\ last'.k = k
                  /\ Member(s', k) = last'.value
        /\ last'.op = "get" => s' = s /\ ret' = Member(s, last'.k)

\* C9: a call changes no field but the one its marker stands for: set and a
\* mutation through get_mut leave every other field as it was, get changes
\* nothing and returns its own field's value, and so every field holds the
\* value last written through its own marker, or its initial value.
C9_EachMarkerOneField ==
    /\ [](phase = "live" => \A k \in 1..Len(Fields) : Member(s, k) = written[k])
    /\ [][C9_Step]_vars

C9_Witness ==
    /\ phase = "live"
    /\ Len(Fields) = 3
    /\ last.op = "write" /\ last.k = 3
    /\ prev.op = "get_mut"
    /\ Member(s, 3) = last.value
    /\ Member(s, 1) = written[1] /\ Member(s, 2) = written[2]
    /\ Fields[1].ty = Fields[3].ty /\ Member(s, 1) # Member(s, 3)

====
